---------------------------- MODULE Spec2Model ----------------------------
(***************************************************************************)
(* NamedType: strong types over an underlying value, with skills (Addable, *)
(* Comparable, Hashable, ImplicitlyConvertible) and unit conversions       *)
(* (MultipleOf, ConvertibleTo), as exercised by src/main.cpp.              *)
(*                                                                         *)
(* named_type.hpp itself is not among the sources; the operators that     *)
(* stand for it follow the library's documented behaviour.  The client    *)
(* code of main.cpp (the units, their ratios and formulas, the literals,   *)
(* Rectangle, changeValue, the test bodies) is modelled from the source.   *)
(***************************************************************************)
EXTENDS Integers, Sequences, FiniteSets, TLC

(***************************************************************************)
(* double.  The underlying type of Meter is double (main.cpp:26): binary   *)
(* floating point with a 53-bit significand, rounded to nearest, ties to   *)
(* even.  A double is modelled as m * 2^e with m odd (or m = 0 and e = 0), *)
(* so that numeric equality is equality of records; the exponent is not    *)
(* bounded (no value of the program comes near its limits), and all values *)
(* are non-negative, as every literal of the program is.  A significand    *)
(* does not fit the integers of the model checker: m is a sequence of      *)
(* limbs in base 2^15, least significant first, the last one not zero.     *)
(***************************************************************************)
MantBits == 53

LimbBits == 15

Base == 32768

RECURSIVE Pow2(_)
Pow2(n) == IF n <= 0 THEN 1 ELSE 2 * Pow2(n - 1)

RECURSIVE BitLen(_)
BitLen(n) == IF n = 0 THEN 0 ELSE 1 + BitLen(n \div 2)

RECURSIVE GCD(_, _)
GCD(a, b) == IF b = 0 THEN a ELSE GCD(b, a % b)

RECURSIVE Trim(_)
Trim(s) ==
    IF s = <<>> \/ s[Len(s)] # 0 THEN s ELSE Trim(SubSeq(s, 1, Len(s) - 1))

\* The limbs of an integer.
RECURSIVE Big(_)
Big(n) == IF n = 0 THEN <<>> ELSE <<n % Base>> \o Big(n \div Base)

\* The integer of limbs s, for a number that fits.
RECURSIVE Small(_)
Small(s) == IF s = <<>> THEN 0 ELSE s[1] + Base * Small(Tail(s))

Limb(s, i) == IF i >= 1 /\ i <= Len(s) THEN s[i] ELSE 0

BigBitLen(s) ==
    IF s = <<>> THEN 0 ELSE LimbBits * (Len(s) - 1) + BitLen(s[Len(s)])

\* Limbs from digits that may exceed the base or be negative, carrying c in.
RECURSIVE Carry(_, _, _)
Carry(s, i, c) ==
    IF i > Len(s) THEN Big(c)
    ELSE <<(s[i] + c) % Base>> \o Carry(s, i + 1, (s[i] + c) \div Base)

Longer(a, b) == IF Len(a) >= Len(b) THEN Len(a) ELSE Len(b)

BigAdd(a, b) == Trim(Carry([i \in 1 .. Longer(a, b) |-> Limb(a, i) + Limb(b, i)], 1, 0))

\* a - b, for a >= b
BigSub(a, b) == Trim(Carry([i \in 1 .. Len(a) |-> a[i] - Limb(b, i)], 1, 0))

RECURSIVE LessFrom(_, _, _)
LessFrom(a, b, i) ==
    IF i = 0 THEN FALSE
    ELSE IF a[i] # b[i] THEN a[i] < b[i]
    ELSE LessFrom(a, b, i - 1)

BigLess(a, b) == IF Len(a) # Len(b) THEN Len(a) < Len(b) ELSE LessFrom(a, b, Len(a))

\* a with w zero limbs below it, times f (a power of two below Base)
ShiftUp(a, w, f) ==
    Trim(Carry([i \in 1 .. (Len(a) + w) |-> IF i <= w THEN 0 ELSE a[i - w] * f], 1, 0))

\* a * 2^k
BigShl(a, k) == ShiftUp(a, k \div LimbBits, Pow2(k % LimbBits))

\* a without its w lowest limbs, divided by f (a power of two below Base)
ShiftDown(a, w, f) ==
    IF w >= Len(a) THEN <<>>
    ELSE Trim([i \in 1 .. (Len(a) - w) |->
                (a[i + w] \div f) + (Limb(a, i + w + 1) % f) * (Base \div f)])

\* a \div 2^k
BigShr(a, k) == ShiftDown(a, k \div LimbBits, Pow2(k % LimbBits))

\* Bit k of a, bit 0 the lowest.
BigBit(a, k) == (Limb(a, (k \div LimbBits) + 1) \div Pow2(k % LimbBits)) % 2

\* The k lowest bits of a are all zero.
LowZero(a, k) ==
    /\ \A i \in 1 .. (k \div LimbBits) : Limb(a, i) = 0
    /\ Limb(a, (k \div LimbBits) + 1) % Pow2(k % LimbBits) = 0

RECURSIVE TrailingZeros(_)
TrailingZeros(a) ==
    IF a = <<>> THEN 0
    ELSE IF a[1] = 0 THEN LimbBits + TrailingZeros(Tail(a))
    ELSE IF a[1] % 2 = 0 THEN 1 + TrailingZeros(<<a[1] \div 2>>)
    ELSE 0

\* a * (limbs j and up of b, as they stand in b): one row for each limb.
RECURSIVE BigMulFrom(_, _, _)
BigMulFrom(a, b, j) ==
    IF j > Len(b) THEN <<>>
    ELSE BigAdd([i \in 1 .. (Len(a) + j - 1) |-> IF i < j THEN 0 ELSE a[i - j + 1] * b[j]],
                BigMulFrom(a, b, j + 1))

BigMul(a, b) == BigMulFrom(a, b, 1)

\* One limb of a quotient: the largest t with d * t <= r, for r below
\* d * Base and a d whose top limb has its top bit set.  The two top limbs
\* of r divided by the top limb of d, or Base - 1 if that is less,
\* overestimate it by two at most.
RECURSIVE Correct(_, _, _)
Correct(r, d, t) ==
    IF BigLess(r, BigMul(d, Big(t))) THEN Correct(r, d, t - 1) ELSE t

Estimate(r, d, qhat) == IF qhat >= Base THEN Correct(r, d, Base - 1) ELSE Correct(r, d, qhat)

Digit(r, d) ==
    Estimate(r, d, (Limb(r, Len(d) + 1) * Base + Limb(r, Len(d))) \div d[Len(d)])

\* The quotient of n by d, and whether the division leaves a remainder, limb
\* by limb from limb i of n down; q and r are the quotient and the remainder
\* so far, cur the remainder with limb i brought down, t the limb of the
\* quotient it gives.
RECURSIVE LongDiv(_, _, _, _, _)
RECURSIVE BringDown(_, _, _, _, _)
RECURSIVE TakeOut(_, _, _, _, _, _)
LongDiv(n, d, i, q, r) ==
    IF i = 0 THEN [q |-> Trim(q), inexact |-> r # <<>>]
    ELSE BringDown(n, d, i, q, Trim(<<n[i]>> \o r))

BringDown(n, d, i, q, cur) == TakeOut(n, d, i, q, cur, Digit(cur, d))

TakeOut(n, d, i, q, cur, t) ==
    IF t = 0 THEN LongDiv(n, d, i - 1, <<0>> \o q, cur)
    ELSE LongDiv(n, d, i - 1, <<t>> \o q, BigSub(cur, BigMul(d, Big(t))))

Divide(n, d) == LongDiv(n, d, Len(n), <<>>, <<>>)

\* n and d shifted by s bits, so that the top limb of d has its top bit set.
Normalized(n, d, s) == Divide(BigShl(n, s), BigShl(d, s))

BigDiv(n, d) == Normalized(n, d, LimbBits - BitLen(d[Len(d)]))

FZero == [m |-> <<>>, e |-> 0]

\* m * 2^e without the z trailing zero bits of m
Strip(m, e, z) == [m |-> BigShr(m, z), e |-> e + z]

Canon(m, e) == IF m = <<>> THEN FZero ELSE Strip(m, e, TrailingZeros(m))

\* q * 2^e, q of MantBits bits, followed by a guard bit and by more below
\* it: rounded to nearest, ties to the even significand.
RoundTo(q, e, guard, more) ==
    [v     |-> Canon(IF guard /\ (more \/ q[1] % 2 = 1) THEN BigAdd(q, <<1>>) ELSE q, e),
     exact |-> ~guard /\ ~more]

\* n * 2^e, and something below one unit of n when sticky, cut by d bits.
RoundCut(n, e, sticky, d) ==
    IF d <= 0 THEN [v |-> Canon(n, e), exact |-> ~sticky]
    ELSE RoundTo(BigShr(n, d), e + d, BigBit(n, d - 1) = 1, sticky \/ ~LowZero(n, d - 1))

\* n * 2^e (plus something below one unit of n, when sticky) rounded to
\* MantBits bits, with whether that was exact.
Round(n, e, sticky) == RoundCut(n, e, sticky, BigBitLen(n) - MantBits)

\* x * y, with whether the product was exact.
FMulR(x, y) == Round(BigMul(x.m, y.m), x.e + y.e, FALSE)

RoundQuotient(d, e) == Round(d.q, e, d.inexact)

\* The quotient of the significands of x and y, x shifted by k bits.
Quotient(x, y, k) == RoundQuotient(BigDiv(BigShl(x.m, k), y.m), x.e - y.e - k)

\* x / y (y not zero), with whether the quotient was exact: the quotient of
\* the significands is taken to MantBits + 1 bits at least, and the
\* remainder tells whether anything lies below.
FDivR(x, y) ==
    IF x.m = <<>> THEN [v |-> FZero, exact |-> TRUE]
    ELSE Quotient(x, y, MantBits + 1 + BigBitLen(y.m) - BigBitLen(x.m))

\* x + y
FAddR(x, y) ==
    IF x.m = <<>> THEN [v |-> y, exact |-> TRUE]
    ELSE IF y.m = <<>> THEN [v |-> x, exact |-> TRUE]
    ELSE IF x.e >= y.e
         THEN Round(BigAdd(BigShl(x.m, x.e - y.e), y.m), y.e, FALSE)
         ELSE Round(BigAdd(BigShl(y.m, y.e - x.e), x.m), x.e, FALSE)

FMul(x, y) == FMulR(x, y).v
FDiv(x, y) == FDivR(x, y).v
FAdd(x, y) == FAddR(x, y).v

\* An integer literal converted to double, and a decimal literal n/d.
FromInt(n) == Round(Big(n), 0, FALSE).v
Decimal(n, d) == FDiv(FromInt(n), FromInt(d))

(***************************************************************************)
(* The units of main.cpp.  A unit is described by the unit it derives from *)
(* and by its converter: none for a plain NamedType, a std::ratio for      *)
(* MultipleOf, a pair of functions for ConvertibleTo.                      *)
(***************************************************************************)
NamedType(tag) == [base |-> tag, kind |-> "named", ratio |-> <<1, 1>>, conv |-> "none"]
MultipleOf(base, ratio) == [base |-> base, kind |-> "ratio", ratio |-> ratio, conv |-> "none"]
ConvertibleTo(base, conv) == [base |-> base, kind |-> "formula", ratio |-> <<1, 1>>, conv |-> conv]

Meter == NamedType("Meter")
Kilometer_Milli == MultipleOf("Meter", <<1, 1000>>)
Kilometer == MultipleOf("Meter", <<1000, 1>>)
Millimeter == MultipleOf("Meter", <<1, 1000>>)
Centimeter_OverMeter == MultipleOf("Meter", <<10, 1>>)
Centimeter == MultipleOf("Millimeter", <<10, 1>>)
Mile == ConvertibleTo("Kilometer", "ConvertMileFromAndToKilometer")

UnitNames == {"Meter", "Kilometer", "Millimeter", "Centimeter", "Mile"}

Unit(u) ==
    CASE u = "Meter" -> Meter
      [] u = "Kilometer" -> Kilometer
      [] u = "Millimeter" -> Millimeter
      [] u = "Centimeter" -> Centimeter
      [] u = "Mile" -> Mile

\* struct ConvertMileFromAndToKilometer
MileConvertFrom(kilometer) == FDivR(kilometer, Decimal(1609, 1000))
MileConvertTo_Divides(mile) == FDivR(mile, Decimal(1609, 1000))
MileConvertTo(mile) == FMulR(mile, Decimal(1609, 1000))

(***************************************************************************)
(* The library: construction, get(), and the conversion between related    *)
(* units.  Ratios along a chain of MultipleOf units are composed as        *)
(* std::ratio values (reduced), and the cumulative ratio is applied once,  *)
(* t * num / den; a ConvertibleTo unit applies convertTo towards its base  *)
(* and convertFrom away from it.                                           *)
(***************************************************************************)
Make(u, v) == [unit |-> u, val |-> v]
Get(x) == x.val

RatioReduce(n, d) == <<n \div GCD(n, d), d \div GCD(n, d)>>
RatioMultiply(r, s) == RatioReduce(r[1] * s[1], r[2] * s[2])
RatioDivide(r, s) == RatioReduce(r[1] * s[2], r[2] * s[1])

\* The unit at the top of u's chain of ratio units.
RECURSIVE RatioRoot(_)
RatioRoot(u) == IF Unit(u).kind = "ratio" THEN RatioRoot(Unit(u).base) ELSE u

\* u's cumulative ratio to RatioRoot(u).
RECURSIVE CumulativeRatio(_)
CumulativeRatio(u) ==
    IF Unit(u).kind = "ratio"
    THEN RatioMultiply(Unit(u).ratio, CumulativeRatio(Unit(u).base))
    ELSE <<1, 1>>

ScaleBetween(a, b) == RatioDivide(CumulativeRatio(a), CumulativeRatio(b))

\* The number of ConvertibleTo units from u up to the plain NamedType.
RECURSIVE FormulaLevel(_)
FormulaLevel(u) ==
    CASE Unit(u).kind = "named" -> 0
      [] Unit(u).kind = "ratio" -> FormulaLevel(Unit(u).base)
      [] Unit(u).kind = "formula" -> 1 + FormulaLevel(Unit(u).base)

Step(v, exact, to, from) == [v |-> v, exact |-> exact, to |-> to, from |-> from]

\* t * num / den
ApplyRatio(t, r) ==
    LET p == FMulR(t, FromInt(r[1]))
        q == FDivR(p.v, FromInt(r[2]))
    IN  Step(q.v, p.exact /\ q.exact, 0, 0)

ApplyConvertTo(conv, t) ==
    CASE conv = "ConvertMileFromAndToKilometer" ->
        LET r == MileConvertTo(t) IN Step(r.v, r.exact, 1, 0)

ApplyConvertFrom(conv, t) ==
    CASE conv = "ConvertMileFromAndToKilometer" ->
        LET r == MileConvertFrom(t) IN Step(r.v, r.exact, 0, 1)

Then(s1, s2) == Step(s2.v, s1.exact /\ s2.exact, s1.to + s2.to, s1.from + s2.from)

\* The value t of unit a expressed in unit b, with the number of formula
\* applications made and whether every operation was exact.
RECURSIVE ConvertValue(_, _, _)
ConvertValue(t, a, b) ==
    IF a = b THEN Step(t, TRUE, 0, 0)
    ELSE IF RatioRoot(a) = RatioRoot(b) THEN ApplyRatio(t, ScaleBetween(a, b))
    ELSE IF FormulaLevel(a) >= FormulaLevel(b)
    THEN LET f  == RatioRoot(a)
             s1 == ConvertValue(t, a, f)
             s2 == Then(s1, ApplyConvertTo(Unit(f).conv, s1.v))
         IN  Then(s2, ConvertValue(s2.v, Unit(f).base, b))
    ELSE LET f  == RatioRoot(b)
             s1 == ConvertValue(t, a, Unit(f).base)
             s2 == Then(s1, ApplyConvertFrom(Unit(f).conv, s1.v))
         IN  Then(s2, ConvertValue(s2.v, f, b))

\* The implicit conversion of an instance to a related unit.
Convert(x, b) == Make(b, ConvertValue(x.val, x.unit, b).v)

(***************************************************************************)
(* The literals of main.cpp.  The suffix operators and the explicit        *)
(* constructions store the value of the literal, converted to double; no   *)
(* formula is applied.  A literal is kept as written, <<unit, n, d>> for   *)
(* n/d of the unit, and built by the operator the source uses for it.      *)
(***************************************************************************)
LitMeter(n) == Make("Meter", FromInt(n))
LitKilometer_AsMeter(n, d) == Make("Meter", Decimal(n, d))
LitKilometer(n, d) == Make("Kilometer", Decimal(n, d))
LitMile(n) == Make("Mile", FromInt(n))

Build(l) ==
    CASE l[1] = "Meter" -> LitMeter(l[2])
      [] l[1] = "Kilometer" -> LitKilometer(l[2], l[3])
      [] l[1] = "Mile" -> LitMile(l[2])
      [] OTHER -> Make(l[1], Decimal(l[2], l[3]))

\* The integers the tests write, and some small ones beside them.
LiteralInts == {1, 2, 3, 7, 31, 200, 31000, 31234}

Literals ==
    {<<u, n, 1>> : u \in UnitNames, n \in LiteralInts} \cup {<<"Kilometer", 12, 10>>}

\* The operands of the additions and comparisons.
ArithLiterals ==
    {<<u, n, 1>> : u \in {"Meter", "Kilometer"}, n \in {1, 10, 11, 200, 1200}}
        \cup {<<"Kilometer", 12, 10>>}

NoValue == Make("none", FZero)
NoLiteral == <<"none", 0, 1>>

(***************************************************************************)
(* Addable and Comparable.  The operators are members of the left          *)
(* operand's type: the right operand is first converted to that type.      *)
(* Plus gives the two operands as the call leaves them, and the result.    *)
(***************************************************************************)
Plus(self, other) ==
    [self   |-> self,
     other  |-> other,
     result |-> Make(self.unit, FAdd(Get(self), Get(Convert(other, self.unit))))]

Equal(self, other) == Get(self) = Get(Convert(other, self.unit))
NotEqual_AsEqual(self, other) == Equal(self, other)
NotEqual(self, other) == ~Equal(self, other)

(***************************************************************************)
(* testHash.  A SerialNumber is a NamedType over std::string with          *)
(* Comparable and Hashable; an instance is an object of its own (id) that  *)
(* holds a string.  std::unordered_map keeps its entries in buckets chosen *)
(* by the key's hash and finds a key in its bucket with ==.                *)
(***************************************************************************)
SerialStrings == {"AA11", "BB22", "CC33"}

SerialNumber(s, id) == [val |-> s, id |-> id]

\* std::hash<std::string>: some function of the characters; this one lets
\* two of the strings collide.
StdHash(s) == CASE s = "AA11" -> 17 [] s = "BB22" -> 4 [] s = "CC33" -> 23 [] OTHER -> 0

\* Hashable: the hash of the underlying value.
Hash_OfObject(x) == x.id
Hash(x) == StdHash(x.val)

\* Comparable on SerialNumber.
SerialEqual(x, y) == x.val = y.val

BucketCount == 2
Buckets == 0 .. (BucketCount - 1)
BucketOf(x) == Hash(x) % BucketCount

EmptyMap == [b \in Buckets |-> <<>>]

\* The position of key k in its bucket, 0 when it is not there.
Position(m, k) ==
    LET b == m[BucketOf(k)]
        hits == {i \in 1 .. Len(b) : SerialEqual(b[i].key, k)}
    IN  IF hits = {} THEN 0 ELSE CHOOSE i \in hits : \A j \in hits : i <= j

\* operator[]: the entry of k, value-initialised (0) when k was not there.
Subscript(m, k) ==
    IF Position(m, k) # 0 THEN m
    ELSE [m EXCEPT ![BucketOf(k)] = Append(@, [key |-> k, val |-> 0])]

ValueAt(m, k) == m[BucketOf(k)][Position(m, k)].val

\* hashMap[k] = v
Assign(m, k, v) ==
    LET n == Subscript(m, k)
    IN  [n EXCEPT ![BucketOf(k)][Position(n, k)].val = v]

\* std::unordered_map<SerialNumber, int> hashMap = { {AA11, 10}, {BB22, 20} }
InitialMap ==
    Assign(Assign(EmptyMap, SerialNumber("AA11", 1), 10), SerialNumber("BB22", 2), 20)

Entries(m) == UNION {{m[b][i] : i \in 1 .. Len(m[b])} : b \in Buckets}

StoredValues == {10, 20, 30}

\* The record of what was last stored under each string, after storing v under s.
Remember(stored, s, v) ==
    [t \in DOMAIN stored \cup {s} |-> IF t = s THEN v ELSE stored[t]]

\* The most operations on the map after its construction.
MaxMapOps == 3

(***************************************************************************)
(* testReference.  NameRef is a NamedType over std::string&: the instance  *)
(* holds the reference, not a copy.  A NamedType over a value type holds   *)
(* a copy.  Memory maps each variable to its string.                       *)
(***************************************************************************)
Variables == {"value", "other"}
Strings == {"value1", "value2"}

NameRefUnderlying == "std::string&"

\* The instance NamedType<U>(variable) holds.
Wrap(U, mem, variable) ==
    IF U = "std::string&" THEN [ref |-> variable, copy |-> ""]
    ELSE [ref |-> "", copy |-> mem[variable]]

NameRef(mem, variable) == Wrap(NameRefUnderlying, mem, variable)

\* get(): the referent for a reference, the held copy otherwise.
GetString(mem, x) == IF x.ref # "" THEN mem[x.ref] ELSE x.copy

\* x.get() = s: memory and the instance after the assignment.
SetString(mem, x, s) ==
    IF x.ref # "" THEN [mem |-> [mem EXCEPT ![x.ref] = s], x |-> x]
    ELSE [mem |-> mem, x |-> [x EXCEPT !.copy = s]]

\* void changeValue(const NameRef name) { name.get() = "value2"; }
\* name is a copy of the argument; memory after the call.
changeValue_OnCopy(mem, name) ==
    LET local == [ref |-> "", copy |-> GetString(mem, name)]
    IN  SetString(mem, local, "value2").mem
changeValue(mem, name) == SetString(mem, name, "value2").mem

\* The most NameRef instances alive at once.
MaxRefs == 2

(***************************************************************************)
(* testConvertible.  MyInt is a NamedType over int with                    *)
(* ImplicitlyConvertible<unsigned>.  int and unsigned have IntBits bits    *)
(* (32 in the program; the model keeps the width small).                   *)
(***************************************************************************)
IntBits == 6

IntMin == 0 - Pow2(IntBits - 1)
IntMax == Pow2(IntBits - 1) - 1
UnsignedMax == Pow2(IntBits) - 1

\* The conversions of the language between int and unsigned.
ToUnsigned(i) == IF i < 0 THEN i + Pow2(IntBits) ELSE i
ToInt(u) == IF u > IntMax THEN u - Pow2(IntBits) ELSE u

MyIntDestination_Int == "int"
MyIntDestination == "unsigned"

\* ImplicitlyConvertible<Destination>: operator Destination() gives get(),
\* converted by the language.
ImplicitConversion(destination, x) ==
    IF destination = "unsigned" THEN ToUnsigned(Get(x)) ELSE Get(x)

\* int uMyInt = myInt; return uMyInt == std::numeric_limits<unsigned>::max();
\* (the comparison is made in unsigned)
testConvertible(myInt) ==
    LET converted == ImplicitConversion(MyIntDestination, myInt)
        uMyInt == ToInt(converted)
    IN  [converted |-> converted, uMyInt |-> uMyInt,
         result |-> ToUnsigned(uMyInt) = UnsignedMax]

NoConversion == [converted |-> 0, uMyInt |-> 0, result |-> TRUE]

(***************************************************************************)
(* testBasicUsage and testGenericType.  Width and Height are NamedTypes    *)
(* over Meter; a Comparator is a NamedType over a callable.  A callable is *)
(* described by what it returns.                                           *)
(***************************************************************************)
Width(meter) == Make("Width", meter)
Height(meter) == Make("Height", meter)

\* Rectangle(Width width, Height height) : width_(width.get()), height_(height.get())
Rectangle_Swapped(width, height) == [width_ |-> Get(height), height_ |-> Get(width)]
Rectangle(width, height) == [width_ |-> Get(width), height_ |-> Get(height)]
getWidth(r) == r.width_
getHeight(r) == r.height_

NoRectangle == [width_ |-> NoValue, height_ |-> NoValue]

Lambda(s) == [returns |-> s]
Call(f) == f.returns

\* fluent::make_named<Comparator>(f)
make_named(tag, f) == Make(tag, f)

\* performAction(Comparator<Function> comp) { return comp.get()(); }
performAction(comp) == Call(Get(comp))

Sides == {10, 11, 12}
Returns == {"compare", "order"}

\* The most conversions one value goes through.
MaxHops == 3

VARIABLES
    test,       \* the test launchTests is running, "none" between tests
    \* conversions between units
    written,    \* the literal as written
    orig,       \* the instance built from it
    prev,       \* the instance the last conversion read
    cur,        \* the instance the last conversion made
    hops,       \* the conversions made from orig so far
    calls,      \* the formula applications of the last operation
    exactTrail, \* every conversion before the last one was exact
    exactAll,   \* every conversion so far was exact
    ratioOnly,  \* every unit on the way is a ratio unit or their base
    \* addition and comparison
    given,      \* the two operands as written
    lhs,        \* the left operand
    rhs,        \* the right operand
    sum,        \* lhs + rhs, once added
    cmp,        \* the last comparison: what was compared and == and != of it
    \* testHash
    hashMap,    \* the buckets of the map, empty before its construction
    nextId,     \* the number of SerialNumber objects made so far
    mapOps,     \* the operations made on the map
    lastStored, \* by string, the value last stored under it
    found,      \* the last lookup: the key object and the value read
    \* testReference
    memory,     \* the string of each variable
    refs,       \* the NameRef instances made
    changed,    \* the last changeValue: the instance passed, memory before
    \* testConvertible
    myInt,      \* the MyInt instance
    conversion, \* what testConvertible computed from it
    \* testBasicUsage, testGenericType
    sides,      \* the width and height as written
    rectangle,  \* the Rectangle built from them
    comparator, \* the named callable
    performed   \* what performAction returned

unitVars == <<written, orig, prev, cur, hops, calls, exactTrail, exactAll, ratioOnly>>
arithVars == <<given, lhs, rhs, sum, cmp>>
hashVars == <<hashMap, nextId, mapOps, lastStored, found>>
refVars == <<memory, refs, changed>>
convVars == <<myInt, conversion>>
wrapVars == <<sides, rectangle, comparator, performed>>
vars == <<test, unitVars, arithVars, hashVars, refVars, convVars, wrapVars>>

NoCalls == [to |-> 0, from |-> 0]
NoCompare == [left |-> NoValue, right |-> NoValue, eq |-> FALSE, ne |-> FALSE]
NothingStored == [s \in {} |-> 0]
NotFound == [key |-> SerialNumber("", 0), val |-> 0, stored |-> 0]
InitialMemory == [v \in Variables |-> "value1"]
NoChange == [name |-> [ref |-> "", copy |-> ""], before |-> InitialMemory]
NoMyInt == Make("none", 0)
NoComparator == Make("none", Lambda(""))

InRatioFamily(u) == RatioRoot(u) = "Meter"

Init ==
    /\ test = "none"
    /\ written = NoLiteral
    /\ orig = NoValue
    /\ prev = NoValue
    /\ cur = NoValue
    /\ hops = 0
    /\ calls = NoCalls
    /\ exactTrail = TRUE
    /\ exactAll = TRUE
    /\ ratioOnly = TRUE
    /\ given = <<NoLiteral, NoLiteral>>
    /\ lhs = NoValue
    /\ rhs = NoValue
    /\ sum = NoValue
    /\ cmp = NoCompare
    /\ hashMap = EmptyMap
    /\ nextId = 0
    /\ mapOps = 0
    /\ lastStored = NothingStored
    /\ found = NotFound
    /\ memory = InitialMemory
    /\ refs = <<>>
    /\ changed = NoChange
    /\ myInt = NoMyInt
    /\ conversion = NoConversion
    /\ sides = <<0, 0>>
    /\ rectangle = NoRectangle
    /\ comparator = NoComparator
    /\ performed = ""

TestNames == {"units", "arith", "hash", "reference", "convertible", "wrap"}

\* launchTest(testName, testFunction): run one test.
LaunchTest(t) ==
    /\ test = "none"
    /\ test' = t
    /\ UNCHANGED <<unitVars, arithVars, hashVars, refVars, convVars, wrapVars>>

\* The test function returns: its locals are gone.
TestReturns ==
    /\ test # "none"
    /\ test' = "none"
    /\ written' = NoLiteral
    /\ orig' = NoValue
    /\ prev' = NoValue
    /\ cur' = NoValue
    /\ hops' = 0
    /\ calls' = NoCalls
    /\ exactTrail' = TRUE
    /\ exactAll' = TRUE
    /\ ratioOnly' = TRUE
    /\ given' = <<NoLiteral, NoLiteral>>
    /\ lhs' = NoValue
    /\ rhs' = NoValue
    /\ sum' = NoValue
    /\ cmp' = NoCompare
    /\ hashMap' = EmptyMap
    /\ nextId' = 0
    /\ mapOps' = 0
    /\ lastStored' = NothingStored
    /\ found' = NotFound
    /\ memory' = InitialMemory
    /\ refs' = <<>>
    /\ changed' = NoChange
    /\ myInt' = NoMyInt
    /\ conversion' = NoConversion
    /\ sides' = <<0, 0>>
    /\ rectangle' = NoRectangle
    /\ comparator' = NoComparator
    /\ performed' = ""

(***************************************************************************)
(* Conversions between units.                                              *)
(***************************************************************************)
\* A unit value is written as a literal: 31_kilometer, Centimeter(31).
Construct(l) ==
    /\ test = "units"
    /\ orig = NoValue
    /\ written' = l
    /\ orig' = Build(l)
    /\ cur' = Build(l)
    /\ prev' = NoValue
    /\ hops' = 0
    /\ calls' = NoCalls
    /\ exactTrail' = TRUE
    /\ exactAll' = TRUE
    /\ ratioOnly' = InRatioFamily(l[1])
    /\ UNCHANGED <<test, arithVars, hashVars, refVars, convVars, wrapVars>>

\* The value is passed where unit u is expected: distanceInMeter(d),
\* distanceInKilometer(d), distanceInMillimeter(d), distanceInMile(d).
PassAs(u) ==
    /\ test = "units"
    /\ orig # NoValue
    /\ hops < MaxHops
    /\ LET s == ConvertValue(cur.val, cur.unit, u)
       IN  /\ cur' = Make(u, s.v)
           /\ calls' = [to |-> s.to, from |-> s.from]
           /\ exactAll' = (exactAll /\ s.exact)
    /\ prev' = cur
    /\ hops' = hops + 1
    /\ exactTrail' = exactAll
    /\ ratioOnly' = (ratioOnly /\ InRatioFamily(u))
    /\ UNCHANGED <<test, written, orig, arithVars, hashVars, refVars, convVars, wrapVars>>

(***************************************************************************)
(* Addition and comparison.                                                *)
(***************************************************************************)
\* Two operands are written.
Operands(a, b) ==
    /\ test = "arith"
    /\ lhs = NoValue
    /\ given' = <<a, b>>
    /\ lhs' = Build(a)
    /\ rhs' = Build(b)
    /\ UNCHANGED <<test, sum, cmp, unitVars, hashVars, refVars, convVars, wrapVars>>

\* lhs + rhs
Add ==
    /\ test = "arith"
    /\ lhs # NoValue
    /\ sum = NoValue
    /\ cmp = NoCompare
    /\ LET r == Plus(lhs, rhs)
       IN  /\ lhs' = r.self
           /\ rhs' = r.other
           /\ sum' = r.result
    /\ UNCHANGED <<test, given, cmp, unitVars, hashVars, refVars, convVars, wrapVars>>

\* lhs == rhs and lhs != rhs
CompareOperands ==
    /\ test = "arith"
    /\ lhs # NoValue
    /\ sum = NoValue
    /\ cmp = NoCompare
    /\ cmp' = [left |-> lhs, right |-> rhs,
               eq |-> Equal(lhs, rhs), ne |-> NotEqual(lhs, rhs)]
    /\ UNCHANGED <<test, given, lhs, rhs, sum, unitVars, hashVars, refVars, convVars, wrapVars>>

\* lhs + rhs == c
CompareSum(c) ==
    /\ test = "arith"
    /\ sum # NoValue
    /\ cmp = NoCompare
    /\ cmp' = [left |-> sum, right |-> Build(c),
               eq |-> Equal(sum, Build(c)), ne |-> NotEqual(sum, Build(c))]
    /\ UNCHANGED <<test, given, lhs, rhs, sum, unitVars, hashVars, refVars, convVars, wrapVars>>

(***************************************************************************)
(* testHash.                                                               *)
(***************************************************************************)
\* The map is built from its initializer list.
BuildMap ==
    /\ test = "hash"
    /\ hashMap = EmptyMap
    /\ hashMap' = InitialMap
    /\ nextId' = 2
    /\ lastStored' = Remember(Remember(NothingStored, "AA11", 10), "BB22", 20)
    /\ UNCHANGED <<test, mapOps, found, unitVars, arithVars, refVars, convVars, wrapVars>>

\* hashMap[SerialNumber{s}] = v
Store(s, v) ==
    /\ test = "hash"
    /\ hashMap # EmptyMap
    /\ mapOps < MaxMapOps
    /\ hashMap' = Assign(hashMap, SerialNumber(s, nextId + 1), v)
    /\ nextId' = nextId + 1
    /\ mapOps' = mapOps + 1
    /\ lastStored' = Remember(lastStored, s, v)
    /\ UNCHANGED <<test, found, unitVars, arithVars, refVars, convVars, wrapVars>>

\* hashMap[SerialNumber{s}], read
Lookup(s) ==
    /\ test = "hash"
    /\ hashMap # EmptyMap
    /\ mapOps < MaxMapOps
    /\ LET k == SerialNumber(s, nextId + 1)
           m == Subscript(hashMap, k)
       IN  /\ hashMap' = m
           /\ found' = [key |-> k, val |-> ValueAt(m, k),
                        stored |-> IF s \in DOMAIN lastStored THEN lastStored[s] ELSE 0]
    /\ nextId' = nextId + 1
    /\ mapOps' = mapOps + 1
    /\ lastStored' = IF s \in DOMAIN lastStored THEN lastStored
                     ELSE Remember(lastStored, s, 0)
    /\ UNCHANGED <<test, unitVars, arithVars, refVars, convVars, wrapVars>>

(***************************************************************************)
(* testReference.                                                          *)
(***************************************************************************)
\* NameRef(v)
MakeNameRef(v) ==
    /\ test = "reference"
    /\ Len(refs) < MaxRefs
    /\ refs' = Append(refs, NameRef(memory, v))
    /\ UNCHANGED <<test, memory, changed, unitVars, arithVars, hashVars, convVars, wrapVars>>

\* changeValue(refs[i])
ChangeValue(i) ==
    /\ test = "reference"
    /\ i \in 1 .. Len(refs)
    /\ memory' = changeValue(memory, refs[i])
    /\ changed' = [name |-> refs[i], before |-> memory]
    /\ UNCHANGED <<test, refs, unitVars, arithVars, hashVars, convVars, wrapVars>>

\* v = s, by the variable's own name
AssignVariable(v, s) ==
    /\ test = "reference"
    /\ changed = NoChange
    /\ memory' = [memory EXCEPT ![v] = s]
    /\ UNCHANGED <<test, refs, changed, unitVars, arithVars, hashVars, convVars, wrapVars>>

(***************************************************************************)
(* testConvertible.                                                        *)
(***************************************************************************)
\* MyInt myInt(i)
MakeMyInt(i) ==
    /\ test = "convertible"
    /\ myInt = NoMyInt
    /\ myInt' = Make("MyInt", i)
    /\ UNCHANGED <<test, conversion, unitVars, arithVars, hashVars, refVars, wrapVars>>

\* int uMyInt = myInt; and the comparison with the largest unsigned
ConvertMyInt ==
    /\ test = "convertible"
    /\ myInt # NoMyInt
    /\ conversion = NoConversion
    /\ conversion' = testConvertible(myInt)
    /\ UNCHANGED <<test, myInt, unitVars, arithVars, hashVars, refVars, wrapVars>>

(***************************************************************************)
(* testBasicUsage, testGenericType.                                        *)
(***************************************************************************)
\* Rectangle r(Width(w_meter), Height(h_meter))
MakeRectangle(w, h) ==
    /\ test = "wrap"
    /\ rectangle = NoRectangle
    /\ sides' = <<w, h>>
    /\ rectangle' = Rectangle(Width(LitMeter(w)), Height(LitMeter(h)))
    /\ UNCHANGED <<test, comparator, performed, unitVars, arithVars, hashVars, refVars, convVars>>

\* fluent::make_named<Comparator>([](){ return s; })
MakeComparator(s) ==
    /\ test = "wrap"
    /\ comparator = NoComparator
    /\ comparator' = make_named("Comparator", Lambda(s))
    /\ UNCHANGED <<test, sides, rectangle, performed, unitVars, arithVars, hashVars, refVars, convVars>>

\* performAction(comparator)
PerformAction ==
    /\ test = "wrap"
    /\ comparator # NoComparator
    /\ performed = ""
    /\ performed' = performAction(comparator)
    /\ UNCHANGED <<test, sides, rectangle, comparator, unitVars, arithVars, hashVars, refVars, convVars>>

Next ==
    \/ \E t \in TestNames : LaunchTest(t)
    \/ TestReturns
    \/ \E l \in Literals : Construct(l)
    \/ \E u \in UnitNames : PassAs(u)
    \/ \E a, b \in ArithLiterals : Operands(a, b)
    \/ Add
    \/ CompareOperands
    \/ \E c \in ArithLiterals : CompareSum(c)
    \/ BuildMap
    \/ \E s \in SerialStrings, v \in StoredValues : Store(s, v)
    \/ \E s \in SerialStrings : Lookup(s)
    \/ \E v \in Variables : MakeNameRef(v)
    \/ \E i \in 1 .. MaxRefs : ChangeValue(i)
    \/ \E v \in Variables, s \in Strings : AssignVariable(v, s)
    \/ \E i \in IntMin .. IntMax : MakeMyInt(i)
    \/ ConvertMyInt
    \/ \E w, h \in Sides : MakeRectangle(w, h)
    \/ \E s \in Returns : MakeComparator(s)
    \/ PerformAction

Spec == Init /\ [][Next]_vars

(***************************************************************************)
(* The properties.                                                         *)
(***************************************************************************)
\* What one application of the cumulative scale gives for x in unit u.
ScaledOnce(x, u) == ApplyRatio(Get(x), ScaleBetween(x.unit, u)).v

\* C1, as claimed: within the ratio units, a value converted through any
\* materialized intermediate units equals the original value with the
\* cumulative scale applied once.
C1_AsClaimed ==
    (test = "units" /\ hops >= 1 /\ ratioOnly) => Get(cur) = ScaledOnce(orig, cur.unit)

\* The product of x by the numerator of the ratio from unit a to unit b is
\* exact.
ProductExact(x, a, b) == FMulR(x, FromInt(ScaleBetween(a, b)[1])).exact

\* C1, amended: the same, provided every intermediate value materialized on
\* the way, and the product by the numerator in the last conversion and in
\* the single application, was computed exactly (the final division may
\* round); 31 kilometer gives 31,000,000 millimeter and 31 centimeter gives
\* 0.31 meter.
C1_ChainComposition ==
    (/\ test = "units"
     /\ hops >= 1
     /\ ratioOnly
     /\ exactTrail
     /\ ProductExact(Get(prev), prev.unit, cur.unit)
     /\ ProductExact(Get(orig), orig.unit, cur.unit))
        => /\ Get(cur) = ScaledOnce(orig, cur.unit)
           /\ (written = <<"Kilometer", 31, 1>> /\ cur.unit = "Millimeter")
                 => Get(cur) = FromInt(31000000)
           /\ (written = <<"Centimeter", 31, 1>> /\ cur.unit = "Meter")
                 => Get(cur) = Decimal(31, 100)

C1_Witness ==
    /\ test = "units"
    /\ hops = 2
    /\ exactTrail
    /\ written = <<"Kilometer", 31, 1>>
    /\ prev.unit = "Meter"
    /\ cur = Make("Millimeter", FromInt(31000000))

\* The integer a double holds, for a double that holds one.
IntegerOf(x) == Small(x.m) * Pow2(x.e)

\* x is k * r for an integer k.
IsMultipleOf(x, r) == x.e >= 0 /\ (IntegerOf(x) * r[2]) % r[1] = 0

\* C2: a base value x that is an exact multiple of the scale r of a ratio
\* unit converts to x / r in that unit and back to x exactly; 31000 meter
\* is 31 kilometer and 31 kilometer is 31000 meter.
C2_RatioRoundTrip ==
    /\ (/\ test = "units"
        /\ hops = 2
        /\ Unit(prev.unit).kind = "ratio"
        /\ Unit(prev.unit).base = orig.unit
        /\ cur.unit = orig.unit
        /\ IsMultipleOf(Get(orig), Unit(prev.unit).ratio))
          => LET r == Unit(prev.unit).ratio
             IN  /\ Get(prev) = FromInt((IntegerOf(Get(orig)) * r[2]) \div r[1])
                 /\ Get(cur) = Get(orig)
    /\ (test = "units" /\ hops = 1 /\ written = <<"Meter", 31000, 1>>
            /\ cur.unit = "Kilometer") => Get(cur) = FromInt(31)
    /\ (test = "units" /\ hops = 1 /\ written = <<"Kilometer", 31, 1>>
            /\ cur.unit = "Meter") => Get(cur) = FromInt(31000)

C2_Witness ==
    /\ test = "units"
    /\ hops = 2
    /\ written = <<"Meter", 31000, 1>>
    /\ prev = Make("Kilometer", FromInt(31))
    /\ cur = Make("Meter", FromInt(31000))

\* C3: a + b holds the sum of a's value and of b's value expressed in a's
\* unit, and leaves both operands as they were; 1 kilometer + 200 meter
\* equals 1200 meter and equals 1.2 kilometer.
C3_Addable ==
    (test = "arith" /\ sum # NoValue)
        => /\ sum.unit = given[1][1]
           /\ Get(sum) = FAdd(Decimal(given[1][2], given[1][3]),
                              Get(Convert(Make(given[2][1], Decimal(given[2][2], given[2][3])),
                                          given[1][1])))
           /\ lhs = Make(given[1][1], Decimal(given[1][2], given[1][3]))
           /\ rhs = Make(given[2][1], Decimal(given[2][2], given[2][3]))
           /\ given = <<(<<"Kilometer", 1, 1>>), (<<"Meter", 200, 1>>)>>
                 => /\ Get(sum) = Decimal(12, 10)
                    /\ cmp.right = Make("Meter", FromInt(1200)) => cmp.eq
                    /\ cmp.right = Make("Kilometer", Decimal(12, 10)) => cmp.eq

C3_Witness ==
    /\ test = "arith"
    /\ given = <<(<<"Kilometer", 1, 1>>), (<<"Meter", 200, 1>>)>>
    /\ sum = Make("Kilometer", Decimal(12, 10))
    /\ cmp.right = Make("Meter", FromInt(1200))
    /\ cmp.eq

\* C4: for two values of one Comparable type, == holds exactly when the
\* underlying values are equal, and != is the negation of ==; 10 meter ==
\* 10 meter, and 10 meter != 11 meter.
C4_Comparable ==
    (test = "arith" /\ cmp # NoCompare)
        => /\ cmp.ne <=> ~cmp.eq
           /\ cmp.left.unit = cmp.right.unit
                 => (cmp.eq <=> Get(cmp.left) = Get(cmp.right))
           /\ (sum = NoValue /\ given = <<(<<"Meter", 10, 1>>), (<<"Meter", 10, 1>>)>>)
                 => cmp.eq /\ ~cmp.ne
           /\ (sum = NoValue /\ given = <<(<<"Meter", 10, 1>>), (<<"Meter", 11, 1>>)>>)
                 => ~cmp.eq /\ cmp.ne

C4_Witness ==
    /\ test = "arith"
    /\ sum = NoValue
    /\ given = <<(<<"Meter", 10, 1>>), (<<"Meter", 11, 1>>)>>
    /\ cmp.left = Make("Meter", FromInt(10))
    /\ cmp.ne
    /\ ~cmp.eq

\* The SerialNumber objects of the state.
KeyObjects == {e.key : e \in Entries(hashMap)} \cup {found.key}

\* C5: SerialNumber objects with equal strings have equal hashes; a lookup
\* with a fresh object reads the value last stored under its string; the
\* map holds one entry per string stored, with the value last stored.
C5_Hashable ==
    (test = "hash" /\ hashMap # EmptyMap)
        => /\ \A x, y \in KeyObjects : SerialEqual(x, y) => Hash(x) = Hash(y)
           /\ found.val = found.stored
           /\ \A s \in SerialStrings :
                 LET hits == {e \in Entries(hashMap) : e.key.val = s}
                 IN  IF s \in DOMAIN lastStored
                     THEN Cardinality(hits) = 1 /\ \A e \in hits : e.val = lastStored[s]
                     ELSE hits = {}

C5_Witness ==
    /\ test = "hash"
    /\ found.key.val = "CC33"
    /\ found.val = 30
    /\ found.key.id = 4
    /\ BucketOf(found.key) = BucketOf(SerialNumber("AA11", 1))
    /\ \E e \in Entries(hashMap) : e.key.val = "AA11" /\ e.val = 10

\* C6: after changeValue on a NameRef of variable x, x holds "value2", so
\* does every NameRef of x, and every other variable is as it was.
C6_Reference ==
    (test = "reference" /\ changed # NoChange)
        => /\ memory[changed.name.ref] = "value2"
           /\ \A i \in 1 .. Len(refs) :
                 refs[i].ref = changed.name.ref => GetString(memory, refs[i]) = "value2"
           /\ \A y \in Variables \ {changed.name.ref} : memory[y] = changed.before[y]

C6_Witness ==
    /\ test = "reference"
    /\ changed # NoChange
    /\ Len(refs) = 2
    /\ refs[1].ref = "value"
    /\ refs[2].ref = "value"
    /\ changed.before["value"] = "value1"
    /\ memory = [value |-> "value2", other |-> "value1"]

\* C7: a literal is stored as written and applies no formula; Mile to
\* Kilometer applies convertTo once, Kilometer to Mile applies convertFrom
\* once, Mile to a ratio unit over Kilometer applies convertTo once and
\* then the cumulative ratio; 2 mile is 2 * 1.609 kilometer and
\* 2 * 1000 * 1.609 meter, 2 kilometer is 2 / 1.609 mile.
C7_Formula ==
    test = "units"
        => /\ (hops = 0 /\ orig # NoValue)
                 => calls = NoCalls /\ Get(orig) = Decimal(written[2], written[3])
           /\ (hops >= 1 /\ prev.unit = "Mile" /\ cur.unit = "Kilometer")
                 => /\ calls = [to |-> 1, from |-> 0]
                    /\ Get(cur) = FMul(Get(prev), Decimal(1609, 1000))
           /\ (hops >= 1 /\ prev.unit = "Kilometer" /\ cur.unit = "Mile")
                 => /\ calls = [to |-> 0, from |-> 1]
                    /\ Get(cur) = FDiv(Get(prev), Decimal(1609, 1000))
           /\ (hops >= 1 /\ prev.unit = "Mile" /\ InRatioFamily(cur.unit))
                 => /\ calls = [to |-> 1, from |-> 0]
                    /\ Get(cur) = ApplyRatio(FMul(Get(prev), Decimal(1609, 1000)),
                                             ScaleBetween("Kilometer", cur.unit)).v
           /\ (hops = 1 /\ written = <<"Mile", 2, 1>> /\ cur.unit = "Kilometer")
                 => Get(cur) = FMul(FromInt(2), Decimal(1609, 1000))
           /\ (hops = 1 /\ written = <<"Mile", 2, 1>> /\ cur.unit = "Meter")
                 => Get(cur) = FMul(FromInt(2 * 1000), Decimal(1609, 1000))
           /\ (hops = 1 /\ written = <<"Kilometer", 2, 1>> /\ cur.unit = "Mile")
                 => Get(cur) = FDiv(FromInt(2), Decimal(1609, 1000))

C7_Witness ==
    /\ test = "units"
    /\ hops = 1
    /\ written = <<"Mile", 2, 1>>
    /\ cur.unit = "Meter"
    /\ calls = [to |-> 1, from |-> 0]

\* C8: the implicit conversion of a MyInt to unsigned gives its value
\* modulo 2^IntBits; for -1 that is the largest unsigned value, and the
\* test's comparison holds.
C8_ImplicitConversion ==
    (test = "convertible" /\ conversion # NoConversion)
        => /\ conversion.converted = Get(myInt) % Pow2(IntBits)
           /\ Get(myInt) = 0 - 1
                 => conversion.converted = UnsignedMax /\ conversion.result

C8_Witness ==
    /\ test = "convertible"
    /\ Get(myInt) = 0 - 1
    /\ conversion.converted = UnsignedMax
    /\ conversion.result

\* C9: the Rectangle built from Width(w) and Height(h) gives w and h back
\* through getWidth().get() and getHeight().get(); performAction on a named
\* callable returns what the callable returns.
C9_WrapUnwrap ==
    test = "wrap"
        => /\ rectangle # NoRectangle
                 => /\ Get(getWidth(rectangle)) = FromInt(sides[1])
                    /\ Get(getHeight(rectangle)) = FromInt(sides[2])
           /\ performed # "" => performed = comparator.val.returns

C9_Witness ==
    /\ test = "wrap"
    /\ sides = <<10, 12>>
    /\ Get(getWidth(rectangle)) = FromInt(10)
    /\ Get(getHeight(rectangle)) = FromInt(12)
    /\ performed = "compare"
=============================================================================
